---- MODULE Spec2Model ----
(***************************************************************************)
(* Model of udkm1Dsim's numerical phonon simulation (PhononNum) and of the *)
(* cache protocol of get_strain_map.                                       *)
(*                                                                         *)
(* Two specifications of get_strain_map over the same actions:             *)
(*   SpecSeq  one PhononNum object calling get_strain_map up to MaxCalls   *)
(*            times, each call with freely chosen inputs;                  *)
(*   Spec     two workers (separate processes sharing cache_dir), one call *)
(*            each, both for the same inputs and hence the same cache key. *)
(* In these, arrays are abstracted to their shape and their provenance    *)
(* (the inputs they were computed from).                                   *)
(*                                                                         *)
(* Specifications of the numerics, on small integer arrays:                *)
(*   SpecCalc   calc_strain_map from the sticks on;                        *)
(*   SpecForce  the spring force evaluated by ode_func;                    *)
(*   SpecHeat   calc_force_from_heat;                                      *)
(*   SpecOde    calls of ode_func with all its arguments.                  *)
(*                                                                         *)
(* A specification of the Structure class:                                 *)
(*   SpecStruct add_sub_structure and add_substrate calls on Structure     *)
(*              objects, and the layer counts, layer vectors, property     *)
(*              vectors and hash of the structures they build.             *)
(***************************************************************************)
EXTENDS Integers, Sequences, FiniteSets, TLC

\* ---------------------------------------------------------------- bounds
NumDelays == 3
NumLayers == 2
MaxCalls == 2

Workers == {"w1", "w2"}

\* ---------------------------------------------------------------- inputs
\* delay vectors of NumDelays samples: strictly increasing, constant,
\* increasing with a repeated sample, strictly decreasing, and unsorted
DelaysRamp == [i \in 1..NumDelays |-> i - 1]
DelaysConstant == [i \in 1..NumDelays |-> 0]
DelaysRepeat == [i \in 1..NumDelays |-> IF i = 1 THEN 0 ELSE i - 2]
DelaysReversed == [i \in 1..NumDelays |-> NumDelays - i]
DelaysPeak == [i \in 1..NumDelays |-> IF i = NumDelays THEN 0 ELSE i]

DelayVectors ==
    {DelaysRamp, DelaysConstant, DelaysRepeat, DelaysReversed, DelaysPeak}

\* a temperature map is represented by its shape [rows, cols]: the shape that
\* fits delays and layers, one with a row missing, one with a column too many
TempMaps ==
    {[rows |-> NumDelays, cols |-> NumLayers],
     [rows |-> NumDelays - 1, cols |-> NumLayers],
     [rows |-> NumDelays, cols |-> NumLayers + 1]}

Inputs == {[delays |-> d, temp_map |-> m, delta_temp_map |-> m] :
             d \in DelayVectors, m \in TempMaps}

NoInput == [delays |-> <<>>]

IsNonDecreasing(d) == \A i \in 1..(Len(d) - 1) : d[i] <= d[i + 1]

\* Structure.get_number_of_layers of the (fixed) sample structure
get_number_of_layers == NumLayers

\* Phonon.check_temp_maps: the validation of the inputs
check_temp_maps_shapes_only(temp_map, delta_temp_map, delays) ==
    /\ temp_map.rows = Len(delays)
    /\ temp_map.cols = get_number_of_layers
    /\ delta_temp_map = temp_map

check_temp_maps(temp_map, delta_temp_map, delays) ==
    /\ IsNonDecreasing(delays)
    /\ temp_map.rows = Len(delays)
    /\ temp_map.cols = get_number_of_layers
    /\ delta_temp_map = temp_map

\* Phonon.get_hash: deterministic content hash of the simulation inputs
get_hash(delays, temp_map, delta_temp_map) ==
    <<"S", delays, temp_map, delta_temp_map>>

\* line 92-95: the file name of the artifact
full_filename(inp) == get_hash(inp.delays, inp.temp_map, inp.delta_temp_map)

Keys == {full_filename(i) : i \in Inputs}

\* ---------------------------------------------------------------- files
NoFile == [kind |-> "none"]
PartialFile == [kind |-> "partial"]
NpyFile(data) == [kind |-> "npy", data |-> data]

NoArray == [rows |-> 0, cols |-> 0, of |-> <<>>]

\* os.path.exists
path_exists(file) == file.kind # "none"

\* line 96: the condition of the cache branch
UseCache_ignores_force(exists, force_recalc) == exists
UseCache_never(exists, force_recalc) == FALSE
UseCache(exists, force_recalc) == exists /\ ~force_recalc

\* line 173: heat-only strain map, shape [T, L]
HeatStrainMap(inp) ==
    [rows |-> Len(inp.delays), cols |-> get_number_of_layers,
     of |-> full_filename(inp)]

\* line 215-216: strain map from the trajectory sol.y, one row per sample of
\* the trajectory, L-1 columns
DynStrainMap(inp, samples) ==
    [rows |-> samples, cols |-> get_number_of_layers - 1,
     of |-> full_filename(inp)]

\* ------------------------------------------------------------ numerics
\* bound on the anharmonic order M of the spring constants
MaxOrder == 2

\* number T of time samples of the numeric arrays
NumSamples == 2

StickValues == {-1, 2}
ThicknessValues == {1, 2}
XValues == {-1, 0, 1}
KValues == {1, 2}

Abs(a) == IF a < 0 THEN -a ELSE a

RECURSIVE GCD(_, _)
GCD(a, b) == IF b = 0 THEN a ELSE GCD(b, a % b)

\* the quotient a/b of numpy's true division, b > 0, as a reduced fraction
Quot(a, b) ==
    LET g == GCD(Abs(a), b) IN [num |-> a \div g, den |-> b \div g]

RECURSIVE Pow(_, _)
Pow(a, n) == IF n = 0 THEN 1 ELSE a * Pow(a, n - 1)

RECURSIVE SumTo(_, _)
\* f[1] + ... + f[n]
SumTo(f, n) == IF n = 0 THEN 0 ELSE f[n] + SumTo(f, n - 1)

\* np.sum(a, 1) of one row
np_sum(row) == SumTo(row, Len(row))

\* np.diff(x): first differences, one entry less
np_diff(x) == [i \in 1..(Len(x) - 1) |-> x[i + 1] - x[i]]

\* np.tile(v, [reps, 1]): reps rows, each the vector v
np_tile(v, reps) == [t \in 1..reps |-> v]

\* elementwise a / b of two matrices of the same shape
np_divide(a, b) ==
    [t \in 1..Len(a) |-> [i \in 1..Len(a[t]) |-> Quot(a[t][i], b[t][i])]]

\* np.zeros_like(a)
np_zeros_like(a) == [t \in 1..Len(a) |-> [i \in 1..Len(a[t]) |-> 0]]

\* v[:-1]
but_last(v) == [i \in 1..(Len(v) - 1) |-> v[i]]

\* phononNum.py line 273-310
calc_force_from_spring_right_neighbour_consts(d_X1, d_X2, spring_consts) ==
    LET L == Len(spring_consts)
        spring_order == Len(spring_consts[1])
        zero == [j \in 1..spring_order |-> 0]
        neg(i) == [j \in 1..spring_order |-> -spring_consts[i][j]]
        coeff1 == [i \in 1..L |-> IF i < L THEN neg(i + 1) ELSE zero]
        coeff2 == [i \in 1..L |-> IF i = 1 THEN zero ELSE neg(i)]
        temp1 == [i \in 1..Len(d_X1) |->
                    [j \in 1..spring_order |-> Pow(d_X1[i], j)]]
        temp2 == [i \in 1..Len(d_X1) |->
                    [j \in 1..spring_order |-> Pow(d_X2[i], j)]]
    IN  [i \in 1..L |->
            np_sum([j \in 1..spring_order |-> coeff2[i][j] * temp2[i][j]])
            - np_sum([j \in 1..spring_order |-> coeff1[i][j] * temp1[i][j]])]

calc_force_from_spring_own_consts(d_X1, d_X2, spring_consts) ==
    LET L == Len(spring_consts)
        spring_order == Len(spring_consts[1])
        zero == [j \in 1..spring_order |-> 0]
        neg(i) == [j \in 1..spring_order |-> -spring_consts[i][j]]
        coeff1 == [i \in 1..L |-> IF i < L THEN neg(i) ELSE zero]
        coeff2 == [i \in 1..L |-> IF i = 1 THEN zero ELSE neg(i)]
        temp1 == [i \in 1..Len(d_X1) |->
                    [j \in 1..spring_order |-> Pow(d_X1[i], j)]]
        temp2 == [i \in 1..Len(d_X1) |->
                    [j \in 1..spring_order |-> Pow(d_X2[i], j)]]
    IN  [i \in 1..L |->
            np_sum([j \in 1..spring_order |-> coeff2[i][j] * temp2[i][j]])
            - np_sum([j \in 1..spring_order |-> coeff1[i][j] * temp1[i][j]])]

calc_force_from_spring(d_X1, d_X2, spring_consts) ==
    LET L == Len(spring_consts)
        spring_order == Len(spring_consts[1])
        zero == [j \in 1..spring_order |-> 0]
        neg(i) == [j \in 1..spring_order |-> -spring_consts[i][j]]
        \* line 298: vstack((-spring_consts[0:-1, :], zeros))
        coeff1 == [i \in 1..L |-> IF i < L THEN neg(i) ELSE zero]
        \* line 299: vstack((zeros, -spring_consts[0:-1, :]))
        coeff2 == [i \in 1..L |-> IF i = 1 THEN zero ELSE neg(i - 1)]
        \* line 301-306
        temp1 == [i \in 1..Len(d_X1) |->
                    [j \in 1..spring_order |-> Pow(d_X1[i], j)]]
        temp2 == [i \in 1..Len(d_X1) |->
                    [j \in 1..spring_order |-> Pow(d_X2[i], j)]]
    \* line 308
    IN  [i \in 1..L |->
            np_sum([j \in 1..spring_order |-> coeff2[i][j] * temp2[i][j]])
            - np_sum([j \in 1..spring_order |-> coeff1[i][j] * temp1[i][j]])]

\* phononNum.py line 260-263: the spring force of ode_func for displacements x
ode_func_spring(x, spring_consts) ==
    calc_force_from_spring(np_diff(x) \o <<0>>, <<0>> \o np_diff(x),
                           spring_consts)

\* phononNum.py line 173: strain_map = sticks/np.tile(thicknesses, [T, 1])
heat_strain_map_tiles_without_last(sticks, thicknesses) ==
    LET tiled == np_tile(but_last(thicknesses) \o <<1>>, Len(sticks))
    IN  np_divide(sticks, tiled)

heat_strain_map(sticks, thicknesses) ==
    np_divide(sticks, np_tile(thicknesses, Len(sticks)))

\* phononNum.py line 215-216: the strain map from the trajectory y ([2L, n])
dyn_strain_map_right_thickness(y, thicknesses, L) ==
    LET n == Len(y[1])
        temp == [t \in 1..n |-> [i \in 1..(L - 1) |-> y[i + 1][t] - y[i][t]]]
        right == [i \in 1..(L - 1) |-> thicknesses[i + 1]]
    IN  np_divide(temp, np_tile(right, n))

dyn_strain_map(y, thicknesses, L) ==
    LET n == Len(y[1])
        \* np.diff(sol.y[0:L, :].T, 1, 1)
        temp == [t \in 1..n |-> [i \in 1..(L - 1) |-> y[i + 1][t] - y[i][t]]]
    IN  np_divide(temp, np_tile(but_last(thicknesses), n))

\* phononNum.py line 217: velocities = sol.y[L:, :].T
dyn_velocities(y, L) ==
    [t \in 1..Len(y[1]) |-> [i \in 1..L |-> y[L + i][t]]]

\* phononNum.py line 313-330: F[:, i] is the negated spring force of the
\* sticks of time sample i; F has L rows and one column per time sample
calc_force_from_heat_first_sample(sticks, spring_consts) ==
    LET M == Len(sticks)
        L == Len(sticks[1])
        col == calc_force_from_spring(SubSeq(sticks[1], 1, L - 1) \o <<0>>,
                                      <<0>> \o SubSeq(sticks[1], 1, L - 1),
                                      spring_consts)
    IN  [l \in 1..L |-> [i \in 1..M |-> -col[l]]]

calc_force_from_heat(sticks, spring_consts) ==
    LET M == Len(sticks)
        L == Len(sticks[1])
        col(i) == calc_force_from_spring(SubSeq(sticks[i], 1, L - 1) \o <<0>>,
                                         <<0>> \o SubSeq(sticks[i], 1, L - 1),
                                         spring_consts)
    IN  [l \in 1..L |-> [i \in 1..M |-> -col(i)[l]]]

\* np.diff(a, n): the n-th difference; for n = 0 numpy returns a itself
RECURSIVE np_diff_n(_, _)
np_diff_n(a, n) == IF n = 0 THEN a ELSE np_diff_n(np_diff(a), n - 1)

\* phononNum.py line 333-347
calc_force_from_damping(v, damping, masses) ==
    LET d == np_diff_n(v, 0)
    IN  [i \in 1..Len(masses) |-> masses[i] * damping[i] * d[i]]

\* helpers.finderb(key, array) for one key: the (0-based) index of the
\* rightmost entry of the sorted array that is <= key, 0 when there is none
finderb_next_sample(key, array) ==
    LET above == {i \in 1..Len(array) : array[i] >= key}
    IN  IF above = {} THEN Len(array) - 1
        ELSE (CHOOSE i \in above : \A j \in above : i <= j) - 1

finderb(key, array) ==
    LET below == {i \in 1..Len(array) : array[i] <= key}
    IN  IF below = {} THEN 0
        ELSE (CHOOSE i \in below : \A j \in below : j <= i) - 1

\* phononNum.py line 264: force_from_heat[:, finderb(t, delays)].squeeze()
heat_force_at(force_from_heat, t, delays) ==
    [i \in 1..Len(force_from_heat) |->
        force_from_heat[i][finderb(t, delays) + 1]]

\* phononNum.py line 250-270: the derivative X_prime of ode_func
ode_func_X_prime_without_damping(t, X, delays, force_from_heat, damping, spring_consts, masses, L) ==
    LET x == SubSeq(X, 1, L)
        v == SubSeq(X, L + 1, 2 * L)
        F_spring == ode_func_spring(x, spring_consts)
        F_heat == heat_force_at(force_from_heat, t, delays)
    IN  [i \in 1..(2 * L) |->
            IF i <= L THEN Quot(v[i], 1)
            ELSE Quot(F_spring[i - L] + F_heat[i - L], masses[i - L])]

ode_func_X_prime(t, X, delays, force_from_heat, damping, spring_consts, masses, L) ==
    LET x == SubSeq(X, 1, L)
        v == SubSeq(X, L + 1, 2 * L)
        F_damping == calc_force_from_damping(v, damping, masses)
        F_spring == ode_func_spring(x, spring_consts)
        F_heat == heat_force_at(force_from_heat, t, delays)
    IN  [i \in 1..(2 * L) |->
            IF i <= L THEN Quot(v[i], 1)
            ELSE Quot(F_damping[i - L] + F_spring[i - L] + F_heat[i - L],
                      masses[i - L])]

\* pbar is None, state is None
NoProgress == [pbar |-> "None"]

\* phononNum.py line 190: state = [delays[0], abs(delays[-1]-delays[0])/100],
\* the second entry kept as its 100-fold dt100
progress_state(last_t, delays) ==
    [pbar |-> "tqdm", updates |-> 0, last_t |-> last_t,
     dt100 |-> Abs(delays[Len(delays)] - delays[1])]

\* phononNum.py line 239-248: the progress branch of ode_func; n is
\* (t - last_t)/dt, which for dt = 0 is +inf, -inf or nan in float arithmetic
ode_func_state(t, state) ==
    IF state = NoProgress THEN state
    ELSE LET num == 100 * (t - state.last_t)
             n_ge_1 == IF state.dt100 > 0 THEN num >= state.dt100 ELSE num > 0
             n_lt_0 == num < 0
         IN  IF n_ge_1
             THEN [state EXCEPT !.updates = @ + 1, !.last_t = t]
             ELSE IF n_lt_0 THEN [state EXCEPT !.last_t = t] ELSE state

\* the time ode_func_X_prime is evaluated at when the progress branch leaks
\* into the numerics
ode_func_X_prime_at_last_t(t, X, delays, force_from_heat, damping, spring_consts, masses, L, state) ==
    ode_func_X_prime(IF state = NoProgress THEN t ELSE state.last_t, X, delays,
                     force_from_heat, damping, spring_consts, masses, L)

\* the derivative of one call of ode_func with the given progress state
ode_func_result(t, X, delays, force_from_heat, damping, spring_consts, masses, L, state) ==
    ode_func_X_prime(t, X, delays, force_from_heat, damping, spring_consts,
                     masses, L)

\* ---------------------------------------------------------------- structure
\* bound on the number of add_sub_structure and add_substrate calls
MaxAdds == 3

\* repetition counts N handed to add_sub_structure
Reps == {0, 1, 2}

\* the Structure objects; sample and stack are built up, wafer only serves
\* as a substrate
StructIds == {"sample", "stack", "wafer"}

Targets == {"sample", "stack"}

\* layer objects: two different objects that share the id "a", and a third
LayerA1 ==
    [cls |-> "UnitCell", id |-> "a", name |-> "A", thickness |-> 1,
     mass_unit_area |-> 1, spring_const |-> <<1>>, phonon_damping |-> 0,
     num_sub_systems |-> 1]

LayerA2 ==
    [cls |-> "UnitCell", id |-> "a", name |-> "A", thickness |-> 2,
     mass_unit_area |-> 1, spring_const |-> <<1>>, phonon_damping |-> 0,
     num_sub_systems |-> 1]

LayerB ==
    [cls |-> "AmorphousLayer", id |-> "b", name |-> "B", thickness |-> 1,
     mass_unit_area |-> 2, spring_const |-> <<2>>, phonon_damping |-> 1,
     num_sub_systems |-> 2]

Layers == {LayerA1, LayerA2, LayerB}

\* an object of another class
NotALayer == [cls |-> "str"]

\* a reference to a Structure object
StructRef(s) == [cls |-> "Structure", ref |-> s]

LayerClasses == {"AmorphousLayer", "UnitCell"}

PropertyNames ==
    {"thickness", "mass_unit_area", "spring_const", "phonon_damping"}

isinstance(o, classes) == o.cls \in classes

\* structure.py line 54-59
NewStructure ==
    [num_sub_systems |-> 1, sub_structures |-> <<>>, substrate |-> <<>>]

Range(f) == {f[i] : i \in DOMAIN f}

\* the sequence seq concatenated n times
RECURSIVE repeat(_, _)
repeat(seq, n) == IF n = 0 THEN <<>> ELSE seq \o repeat(seq, n - 1)

\* list.index(x), 0-based
index(list, x) ==
    (CHOOSE i \in 1..Len(list) :
        list[i] = x /\ \A j \in 1..(i - 1) : list[j] # x) - 1

\* structure.py line 189-206, on the objects obj
RECURSIVE Structure_get_number_of_layers(_, _)
Structure_get_number_of_layers_nested_once(obj, s) ==
    LET subs == obj[s].sub_structures
    IN  SumTo([i \in 1..Len(subs) |->
                  IF isinstance(subs[i][1], LayerClasses)
                  THEN subs[i][2]
                  ELSE Structure_get_number_of_layers(obj, subs[i][1].ref)],
              Len(subs))

Structure_get_number_of_layers(obj, s) ==
    LET subs == obj[s].sub_structures
    IN  SumTo([i \in 1..Len(subs) |->
                  IF isinstance(subs[i][1], LayerClasses)
                  THEN subs[i][2]
                  ELSE Structure_get_number_of_layers(obj, subs[i][1].ref)
                       * subs[i][2]],
              Len(subs))

\* structure.py line 243-254, 257-274: the ids not yet in the list are added
RECURSIVE merge_unique(_, _, _)
merge_unique(acc, new, j) ==
    IF j > Len(new.ids) THEN acc
    ELSE merge_unique(
            IF new.ids[j] \in Range(acc.ids) THEN acc
            ELSE [ids |-> Append(acc.ids, new.ids[j]),
                  handles |-> Append(acc.handles, new.handles[j])],
            new, j + 1)

\* structure.py line 226-276
RECURSIVE Structure_get_unique_layers(_, _)
RECURSIVE unique_layers_loop(_, _, _, _)
unique_layers_loop(obj, s, i, acc) ==
    LET subs == obj[s].sub_structures
    IN  IF i > Len(subs) THEN acc
        ELSE LET o == subs[i][1]
                 found == IF isinstance(o, LayerClasses)
                          THEN [ids |-> <<o.id>>, handles |-> <<o>>]
                          ELSE Structure_get_unique_layers(obj, o.ref)
             IN  unique_layers_loop(obj, s, i + 1, merge_unique(acc, found, 1))

Structure_get_unique_layers(obj, s) ==
    unique_layers_loop(obj, s, 1, [ids |-> <<>>, handles |-> <<>>])

\* structure.py line 278-337, with the unique layers handed in
RECURSIVE Structure_get_layer_vectors(_, _, _)
RECURSIVE layer_vectors_loop(_, _, _, _, _)
layer_vectors_loop(obj, s, layers, i, acc) ==
    LET subs == obj[s].sub_structures
    IN  IF i > Len(subs) THEN acc
        ELSE LET o == subs[i][1]
                 N == subs[i][2]
                 one == IF isinstance(o, LayerClasses)
                        THEN [indices |-> <<index(layers.ids, o.id)>>,
                              layer_ids |-> <<o.id>>,
                              layer_handles |-> <<o>>]
                        ELSE Structure_get_layer_vectors(obj, o.ref, layers)
             IN  layer_vectors_loop(obj, s, layers, i + 1,
                    [indices |-> acc.indices \o repeat(one.indices, N),
                     layer_ids |-> acc.layer_ids \o repeat(one.layer_ids, N),
                     layer_handles |->
                         acc.layer_handles \o repeat(one.layer_handles, N)])

Structure_get_layer_vectors(obj, s, layers) ==
    layer_vectors_loop(obj, s, layers, 1,
        [indices |-> <<>>, layer_ids |-> <<>>, layer_handles |-> <<>>])

IndexError == [raised |-> "IndexError", prop |-> <<>>]

\* structure.py line 431-492: one entry per i in range(get_number_of_layers())
\* read from handles[i]
Structure_get_layer_property_vector(obj, s, property_name) ==
    LET handles == Structure_get_layer_vectors(
                       obj, s, Structure_get_unique_layers(obj, s)).layer_handles
        L == Structure_get_number_of_layers(obj, s)
    IN  IF handles = <<>> \/ L > Len(handles) THEN IndexError
        ELSE [raised |-> "no", prop |-> [i \in 1..L |-> handles[i][property_name]]]

\* layer.get_property_dict: the physical parameters of a layer
get_property_dict(layer) ==
    [thickness |-> layer.thickness, mass_unit_area |-> layer.mass_unit_area,
     spring_const |-> layer.spring_const,
     phonon_damping |-> layer.phonon_damping]

\* helpers.make_hash_md5: a hash without collisions
make_hash_md5(param) == param

\* structure.py line 100-114
Structure_get_hash(obj, s) ==
    LET layers == Structure_get_unique_layers(obj, s)
        IDs == Structure_get_layer_vectors(obj, s, layers).layer_ids
    IN  make_hash_md5(
            <<[j \in 1..Len(layers.handles) |->
                  get_property_dict(layers.handles[j])], IDs>>)

\* the fields of the object an argument refers to
Deref(obj, o) ==
    IF isinstance(o, {"Structure"})
    THEN [cls |-> "Structure", ref |-> o.ref,
          num_sub_systems |-> obj[o.ref].num_sub_systems,
          substrate |-> obj[o.ref].substrate]
    ELSE o

\* what a list or attribute holds of an argument: the reference to it
Handle(o) == IF isinstance(o, {"Structure"}) THEN StructRef(o.ref) ELSE o

\* structure.py line 131-154: whether the call raises, and the fields of self
\* after it
add_sub_structure_count_first(self, sub_structure, N) ==
    IF ~isinstance(sub_structure, {"AmorphousLayer", "UnitCell", "Structure"})
    THEN [raised |-> "ValueError", self |-> self]
    ELSE IF isinstance(sub_structure, {"Structure"})
            /\ sub_structure.substrate # <<>>
    THEN [raised |-> "ValueError", self |-> self]
    ELSE IF self.num_sub_systems > 1
            /\ ~(sub_structure.num_sub_systems = self.num_sub_systems)
    THEN [raised |-> "ValueError",
          self |-> [self EXCEPT
                      !.num_sub_systems = sub_structure.num_sub_systems]]
    ELSE [raised |-> "no",
          self |-> [self EXCEPT
                      !.num_sub_systems = sub_structure.num_sub_systems,
                      !.sub_structures = Append(@, <<Handle(sub_structure), N>>)]]

add_sub_structure_fields(self, sub_structure, N) ==
    IF ~isinstance(sub_structure, {"AmorphousLayer", "UnitCell", "Structure"})
    THEN [raised |-> "ValueError", self |-> self]
    ELSE IF isinstance(sub_structure, {"Structure"})
            /\ sub_structure.substrate # <<>>
    THEN [raised |-> "ValueError", self |-> self]
    ELSE IF self.num_sub_systems > 1
            /\ ~(sub_structure.num_sub_systems = self.num_sub_systems)
    THEN [raised |-> "ValueError", self |-> self]
    ELSE [raised |-> "no",
          self |-> [self EXCEPT
                      !.num_sub_systems = sub_structure.num_sub_systems,
                      !.sub_structures = Append(@, <<Handle(sub_structure), N>>)]]

\* structure.py line 165-171
add_substrate_fields(self, sub_structure) ==
    IF ~isinstance(sub_structure, {"Structure"})
    THEN [raised |-> "ValueError", self |-> self]
    ELSE [raised |-> "no",
          self |-> [self EXCEPT !.substrate = Handle(sub_structure)]]

\* ---------------------------------------------------------------- state
VARIABLES
    cache,          \* cache_dir: file name -> file
    writers,        \* file name -> workers with a save of that file in progress
    force_recalc,   \* self.force_recalc of each worker's PhononNum
    only_heat,      \* self.only_heat
    remaining,      \* calls each worker may still start
    pool,           \* the inputs callers choose from
    pc,             \* position of each worker in get_strain_map
    inp,            \* arguments of the current call
    strain_map,     \* local variable strain_map
    sol,            \* solve_ivp: samples of t_eval emitted, and status
    did,            \* steps executed in the current call
    err,            \* exception that ended the current call
    before,         \* the artifact under the call's key when the call started
    prev,           \* summary of the previous call of the same worker
    calc,           \* one run of calc_strain_map on numeric arrays
    force,          \* one evaluation of the forces of ode_func
    ode,            \* calls of ode_func with all its arguments
    S               \* Structure objects: object id -> fields

orchVars == <<cache, writers, force_recalc, only_heat, remaining, pool, pc, inp,
              strain_map, sol, did, err, before, prev>>

vars == <<orchVars, calc, force, ode, S>>

NoCalc == [pc |-> "off"]
NoForce == [pc |-> "off"]
NoOde == [pc |-> "off"]
NoStructures == <<>>

NoSol == [n |-> 0, status |-> 0]
NoPrev == [outcome |-> "none"]

InitOrch ==
    /\ cache = <<>>
    /\ writers = <<>>
    /\ pc = [w \in Workers |-> "idle"]
    /\ inp = [w \in Workers |-> NoInput]
    /\ strain_map = [w \in Workers |-> NoArray]
    /\ sol = [w \in Workers |-> NoSol]
    /\ did = [w \in Workers |-> {}]
    /\ err = [w \in Workers |-> "none"]
    /\ before = [w \in Workers |-> NoFile]
    /\ prev = [w \in Workers |-> NoPrev]

InitCommon ==
    /\ InitOrch
    /\ force_recalc \in [Workers -> BOOLEAN]
    /\ only_heat \in [Workers -> BOOLEAN]
    /\ calc = NoCalc
    /\ force = NoForce
    /\ ode = NoOde
    /\ S = NoStructures

\* no get_strain_map call is made
InitNoCalls ==
    /\ InitOrch
    /\ force_recalc = [w \in Workers |-> FALSE]
    /\ only_heat = [w \in Workers |-> FALSE]
    /\ remaining = [w \in Workers |-> 0]
    /\ pool = {}

\* one object, successive calls
InitSeq ==
    /\ InitCommon
    /\ remaining = [w \in Workers |-> IF w = "w1" THEN MaxCalls ELSE 0]
    /\ force_recalc["w2"] = FALSE
    /\ only_heat["w2"] = FALSE
    /\ pool = Inputs

\* two workers, one call each, same inputs
Init ==
    /\ InitCommon
    /\ remaining = [w \in Workers |-> 1]
    /\ pool \in {{i} : i \in Inputs}

Key(w) == full_filename(inp[w])

\* the file of that name in cache_dir, and the workers writing it
File(name) == IF name \in DOMAIN cache THEN cache[name] ELSE NoFile

WritersOf(name) == IF name \in DOMAIN writers THEN writers[name] ELSE {}

\* a directory (or writer table) with the entry of one name replaced
Put(dir, name, entry) ==
    [n \in DOMAIN dir \cup {name} |-> IF n = name THEN entry ELSE dir[n]]

Ended(w) == pc[w] \in {"done", "error"}

\* ---------------------------------------------------------------- actions
\* line 84-95: a call of get_strain_map starts
get_strain_map_call(w) ==
    /\ pc[w] = "idle" \/ Ended(w)
    /\ remaining[w] > 0
    /\ \E i \in pool :
        /\ inp' = [inp EXCEPT ![w] = i]
        /\ before' = [before EXCEPT ![w] = File(full_filename(i))]
    /\ remaining' = [remaining EXCEPT ![w] = @ - 1]
    /\ prev' = [prev EXCEPT ![w] =
                  IF pc[w] = "idle" THEN NoPrev
                  ELSE [outcome |-> pc[w], inp |-> inp[w],
                        strain_map |-> strain_map[w], did |-> did[w],
                        before |-> before[w]]]
    /\ pc' = [pc EXCEPT ![w] = "exists"]
    /\ strain_map' = [strain_map EXCEPT ![w] = NoArray]
    /\ sol' = [sol EXCEPT ![w] = NoSol]
    /\ did' = [did EXCEPT ![w] = {}]
    /\ err' = [err EXCEPT ![w] = "none"]
    /\ UNCHANGED <<cache, writers, force_recalc, only_heat, pool,
                   calc, force, ode, S>>

\* line 96: path.exists(full_filename) and not self.force_recalc
get_strain_map_exists(w) ==
    /\ pc[w] = "exists"
    /\ pc' = [pc EXCEPT ![w] =
                IF UseCache(path_exists(File(Key(w))), force_recalc[w])
                THEN "load" ELSE "calc"]
    /\ UNCHANGED <<cache, writers, force_recalc, only_heat, remaining, pool,
                   inp, strain_map, sol, did, err, before, prev,
                   calc, force, ode, S>>

\* line 98-99, 105: np.load of the artifact; a file whose write is not
\* complete cannot be parsed and np.load raises
get_strain_map_load(w) ==
    /\ pc[w] = "load"
    /\ did' = [did EXCEPT ![w] = @ \cup {"load"}]
    /\ IF File(Key(w)).kind = "npy"
       THEN /\ strain_map' = [strain_map EXCEPT ![w] = File(Key(w)).data]
            /\ pc' = [pc EXCEPT ![w] = "done"]
            /\ err' = err
       ELSE /\ strain_map' = strain_map
            /\ pc' = [pc EXCEPT ![w] = "error"]
            /\ err' = [err EXCEPT ![w] = "io"]
    /\ UNCHANGED <<cache, writers, force_recalc, only_heat, remaining, pool,
                   inp, sol, before, prev,
                   calc, force, ode, S>>

\* line 102-103, 152-165: calc_strain_map is entered and checks the inputs
calc_strain_map_check_skipped(w) ==
    /\ pc[w] = "calc"
    /\ did' = [did EXCEPT ![w] = @ \cup {"calc"}]
    /\ pc' = [pc EXCEPT ![w] = "sticks"]
    /\ UNCHANGED <<cache, writers, force_recalc, only_heat, remaining, pool,
                   inp, strain_map, sol, err, before, prev,
                   calc, force, ode, S>>

calc_strain_map_check(w) ==
    /\ pc[w] = "calc"
    /\ did' = [did EXCEPT ![w] = @ \cup {"calc", "check_temp_maps"}]
    /\ IF check_temp_maps(inp[w].temp_map, inp[w].delta_temp_map, inp[w].delays)
       THEN /\ pc' = [pc EXCEPT ![w] = "sticks"]
            /\ err' = err
       ELSE /\ pc' = [pc EXCEPT ![w] = "error"]
            /\ err' = [err EXCEPT ![w] = "input"]
    /\ UNCHANGED <<cache, writers, force_recalc, only_heat, remaining, pool,
                   inp, strain_map, sol, before, prev,
                   calc, force, ode, S>>

\* line 167-184: the sticks, then the heat-only strain map or the set-up of
\* the solver
calc_strain_map_sticks(w) ==
    /\ pc[w] = "sticks"
    /\ did' = [did EXCEPT ![w] = @ \cup {"sticks"}]
    /\ IF only_heat[w]
       THEN /\ strain_map' = [strain_map EXCEPT ![w] = HeatStrainMap(inp[w])]
            /\ pc' = [pc EXCEPT ![w] = "save"]
       ELSE /\ strain_map' = strain_map
            /\ pc' = [pc EXCEPT ![w] = "solve"]
    /\ UNCHANGED <<cache, writers, force_recalc, only_heat, remaining, pool,
                   inp, sol, err, before, prev,
                   calc, force, ode, S>>

\* line 195-202: solve_ivp's check of t_eval = delays against
\* t_span = [delays[0], delays[-1]], made before the first step: the values
\* lie within t_span and are strictly sorted in the direction of integration
t_eval_ok(delays) ==
    LET t0 == delays[1]
        tf == delays[Len(delays)]
        lo == IF t0 < tf THEN t0 ELSE tf
        hi == IF t0 < tf THEN tf ELSE t0
        d == np_diff(delays)
    IN  /\ \A i \in 1..Len(delays) : lo <= delays[i] /\ delays[i] <= hi
        /\ ~(tf > t0 /\ \E i \in 1..Len(d) : d[i] <= 0)
        /\ ~(tf < t0 /\ \E i \in 1..Len(d) : d[i] >= 0)

\* with delays[0] = delays[-1] the solver is at its bound at once and all
\* samples are evaluated there; otherwise a step reaches the next sample
SamplesAfterStep(w) ==
    IF inp[w].delays[1] = inp[w].delays[Len(inp[w].delays)]
    THEN Len(inp[w].delays) ELSE sol[w].n + 1

\* line 195-202: solve_ivp raises on a t_eval it does not accept; otherwise
\* one accepted step: it calls ode_func and reaches the next sample of t_eval
solve_ivp_step(w) ==
    /\ pc[w] = "solve"
    /\ sol[w].n < Len(inp[w].delays)
    /\ IF ~t_eval_ok(inp[w].delays)
       THEN /\ did' = [did EXCEPT ![w] = @ \cup {"solve_ivp"}]
            /\ sol' = sol
            /\ pc' = [pc EXCEPT ![w] = "error"]
            /\ err' = [err EXCEPT ![w] = "value"]
       ELSE /\ did' = [did EXCEPT ![w] = @ \cup {"solve_ivp", "ode_func"}]
            /\ sol' = [sol EXCEPT ![w].n = SamplesAfterStep(w)]
            /\ pc' = [pc EXCEPT ![w] =
                        IF SamplesAfterStep(w) = Len(inp[w].delays)
                        THEN "solved" ELSE "solve"]
            /\ err' = err
    /\ UNCHANGED <<cache, writers, force_recalc, only_heat, remaining, pool,
                   inp, strain_map, before, prev,
                   calc, force, ode, S>>

\* line 195-202: the step size collapses: solve_ivp stops and returns its
\* result with status -1 and the samples reached so far; it does not raise
solve_ivp_fail(w) ==
    /\ pc[w] = "solve"
    /\ sol[w].n < Len(inp[w].delays)
    /\ t_eval_ok(inp[w].delays)
    /\ inp[w].delays[1] # inp[w].delays[Len(inp[w].delays)]
    /\ did' = [did EXCEPT ![w] = @ \cup {"solve_ivp", "ode_func"}]
    /\ sol' = [sol EXCEPT ![w].status = -1]
    /\ pc' = [pc EXCEPT ![w] = "solved"]
    /\ UNCHANGED <<cache, writers, force_recalc, only_heat, remaining, pool,
                   inp, strain_map, err, before, prev,
                   calc, force, ode, S>>

\* line 204-220: the strain map from sol.y; sol.success is not read. With no
\* sample at all sol.y is empty and its indexing raises
calc_strain_map_result(w) ==
    /\ pc[w] = "solved"
    /\ IF sol[w].n = 0
       THEN /\ strain_map' = strain_map
            /\ pc' = [pc EXCEPT ![w] = "error"]
            /\ err' = [err EXCEPT ![w] = "index"]
       ELSE /\ strain_map' = [strain_map EXCEPT ![w] =
                                DynStrainMap(inp[w], sol[w].n)]
            /\ pc' = [pc EXCEPT ![w] = "save"]
            /\ err' = err
    /\ UNCHANGED <<cache, writers, force_recalc, only_heat, remaining, pool,
                   inp, sol, did, before, prev,
                   calc, force, ode, S>>

\* line 104: self.save opens the file full_filename for writing
save_open(w) ==
    /\ pc[w] = "save"
    /\ did' = [did EXCEPT ![w] = @ \cup {"save"}]
    /\ cache' = Put(cache, Key(w), PartialFile)
    /\ writers' = Put(writers, Key(w), WritersOf(Key(w)) \cup {w})
    /\ pc' = [pc EXCEPT ![w] = "saving"]
    /\ UNCHANGED <<force_recalc, only_heat, remaining, pool, inp, strain_map,
                   sol, err, before, prev,
                   calc, force, ode, S>>

\* Simulation.save: what is persisted of the list [strain_map] handed over
saved_data(data) == data[1]

\* line 104-105: the write completes and get_strain_map returns strain_map
save_write(w) ==
    /\ pc[w] = "saving"
    /\ writers' = Put(writers, Key(w), WritersOf(Key(w)) \ {w})
    /\ cache' = Put(cache, Key(w),
                    IF WritersOf(Key(w)) = {w}
                    THEN NpyFile(saved_data(<<strain_map[w]>>))
                    ELSE PartialFile)
    /\ pc' = [pc EXCEPT ![w] = "done"]
    /\ UNCHANGED <<force_recalc, only_heat, remaining, pool, inp, strain_map,
                   sol, did, err, before, prev,
                   calc, force, ode, S>>

Next ==
    \/ \E w \in Workers : get_strain_map_call(w)
    \/ \E w \in Workers : get_strain_map_exists(w)
    \/ \E w \in Workers : get_strain_map_load(w)
    \/ \E w \in Workers : calc_strain_map_check(w)
    \/ \E w \in Workers : calc_strain_map_sticks(w)
    \/ \E w \in Workers : solve_ivp_step(w)
    \/ \E w \in Workers : solve_ivp_fail(w)
    \/ \E w \in Workers : calc_strain_map_result(w)
    \/ \E w \in Workers : save_open(w)
    \/ \E w \in Workers : save_write(w)

Spec == Init /\ [][Next]_vars

SpecSeq == InitSeq /\ [][Next]_vars

\* ------------------------------------------------- calc_strain_map, numeric
\* the trajectories solve_ivp may hand back in this specification: n samples
\* (n < T when the solver stopped early), entry c*i*i*t in row i at sample t
Trajectories(L, T) ==
    {[i \in 1..(2 * L) |-> [t \in 1..n |-> c * i * i * t]] :
        n \in 1..T, c \in {0, 1}}

\* inputs of calc_strain_map after line 169: the flag, the thicknesses of the
\* L layers, the sticks [T, L], and the trajectory the solver would return
InitCalc ==
    /\ InitNoCalls
    /\ force = NoForce
    /\ ode = NoOde
    /\ S = NoStructures
    /\ \E oh \in BOOLEAN,
          th \in [1..NumLayers -> ThicknessValues],
          st \in [1..NumSamples -> [1..NumLayers -> StickValues]],
          y \in Trajectories(NumLayers, NumSamples) :
            calc = [pc |-> "sticks", only_heat |-> oh, thicknesses |-> th,
                    sticks |-> st, y |-> y, solve_ivp_calls |-> 0,
                    strain_map |-> <<>>, velocities |-> <<>>]

\* line 171-174: no coherent dynamics
calc_strain_map_only_heat ==
    /\ calc.pc = "sticks"
    /\ calc.only_heat
    /\ calc' = [calc EXCEPT
                  !.pc = "done",
                  !.strain_map = heat_strain_map(calc.sticks, calc.thicknesses),
                  !.velocities = np_zeros_like(
                      heat_strain_map(calc.sticks, calc.thicknesses))]
    /\ UNCHANGED <<orchVars, force, ode, S>>

\* line 175-217: coherent dynamics with the solver
calc_strain_map_dynamics ==
    /\ calc.pc = "sticks"
    /\ ~calc.only_heat
    /\ calc' = [calc EXCEPT
                  !.pc = "done",
                  !.solve_ivp_calls = @ + 1,
                  !.strain_map = dyn_strain_map(calc.y, calc.thicknesses,
                                                Len(calc.thicknesses)),
                  !.velocities = dyn_velocities(calc.y, Len(calc.thicknesses))]
    /\ UNCHANGED <<orchVars, force, ode, S>>

NextCalc == calc_strain_map_only_heat \/ calc_strain_map_dynamics

SpecCalc == InitCalc /\ [][NextCalc]_vars

\* ------------------------------------------------------- ode_func, forces
\* the arrays of one evaluation: displacements x of 1..NumLayers layers and
\* spring constants of order 1..MaxOrder
InitForce ==
    /\ InitNoCalls
    /\ calc = NoCalc
    /\ ode = NoOde
    /\ S = NoStructures
    /\ \E L \in 1..NumLayers, M \in 1..MaxOrder :
         \E x \in [1..L -> XValues], k \in [1..L -> [1..M -> KValues]] :
            force = [pc |-> "call", x |-> x, spring_consts |-> k,
                     F_spring |-> <<>>, X_prime |-> <<>>]

\* line 250-270: ode_func for layers at the displacements x that do not move
\* and are not heated (v = 0, force_from_heat = 0); line 260-263: its spring
\* force
ode_func ==
    /\ force.pc = "call"
    /\ LET L == Len(force.x)
           X == force.x \o [i \in 1..L |-> 0]
           no_heat == [i \in 1..L |-> [t \in 1..NumDelays |-> 0]]
           damping == [i \in 1..L |-> i]
           masses == [i \in 1..L |-> i + 1]
       IN  force' = [force EXCEPT
                       !.pc = "done",
                       !.F_spring =
                           ode_func_spring(force.x, force.spring_consts),
                       !.X_prime =
                           ode_func_X_prime(0, X, DelaysRamp, no_heat, damping,
                                            force.spring_consts, masses, L)]
    /\ UNCHANGED <<orchVars, calc, ode, S>>

NextForce == ode_func

SpecForce == InitForce /\ [][NextForce]_vars

\* ---------------------------------------------------------------- ode_func
\* the arguments of ode_func: small vectors of L entries
XVectors(L) ==
    {[i \in 1..L |-> 0], [i \in 1..L |-> i], [i \in 1..L |-> i * i - 2 * i]}

VVectors(L) == {[i \in 1..L |-> 0], [i \in 1..L |-> 1], [i \in 1..L |-> i]}

MassVectors(L) == {[i \in 1..L |-> 1], [i \in 1..L |-> i + 1]}

DampingVectors(L) == {[i \in 1..L |-> 0], [i \in 1..L |-> i]}

SpringConsts(L, M) ==
    {[i \in 1..L |-> [j \in 1..M |-> 1]],
     [i \in 1..L |-> [j \in 1..M |-> i + j - 1]]}

\* heat forces [L, T] with pairwise different entries
HeatForces(L, T) ==
    {[i \in 1..L |-> [t \in 1..T |-> c * (i + L * t)]] : c \in {-1, 1}}

\* the sorted delay vectors, with doubled spacing so that a time may fall
\* between two samples
SortedDelayVectors ==
    {[i \in 1..NumDelays |-> 2 * d[i]] : d \in {e \in DelayVectors : IsNonDecreasing(e)}}

\* times t: before the first delay, on and between samples, after the last
TimeValues == -1..(2 * NumDelays - 1)

ProgressStates(delays) ==
    {NoProgress} \cup {progress_state(lt, delays) : lt \in {0, 1}}

InitOde ==
    /\ InitNoCalls
    /\ calc = NoCalc
    /\ force = NoForce
    /\ S = NoStructures
    /\ \E L \in 1..NumLayers, M \in 1..MaxOrder, t \in TimeValues,
          delays \in SortedDelayVectors :
         \E x \in XVectors(L), v \in VVectors(L), masses \in MassVectors(L),
            damping \in DampingVectors(L),
            spring_consts \in SpringConsts(L, M),
            force_from_heat \in HeatForces(L, NumDelays),
            state \in ProgressStates(delays) :
            ode = [pc |-> "call", t |-> t, X |-> x \o v, delays |-> delays,
                   force_from_heat |-> force_from_heat, damping |-> damping,
                   spring_consts |-> spring_consts, masses |-> masses,
                   L |-> L, state0 |-> state, state |-> state,
                   F_damping |-> <<>>, F_spring |-> <<>>, idx |-> -1,
                   X_primes |-> <<>>]

\* phononNum.py line 223-270: one call of ode_func by the solver; the solver
\* calls it twice with the same (t, X)
ode_func_call ==
    /\ ode.pc = "call"
    /\ LET L == ode.L
           x == SubSeq(ode.X, 1, L)
           v == SubSeq(ode.X, L + 1, 2 * L)
       IN  ode' = [ode EXCEPT
                     !.pc = IF Len(ode.X_primes) = 1 THEN "done" ELSE "call",
                     !.state = ode_func_state(ode.t, ode.state),
                     !.F_damping =
                         calc_force_from_damping(v, ode.damping, ode.masses),
                     !.F_spring = ode_func_spring(x, ode.spring_consts),
                     !.idx = finderb(ode.t, ode.delays),
                     !.X_primes = Append(@,
                         ode_func_result(ode.t, ode.X, ode.delays,
                                         ode.force_from_heat, ode.damping,
                                         ode.spring_consts, ode.masses, L,
                                         ode.state))]
    /\ UNCHANGED <<orchVars, calc, force, S>>

NextOde == ode_func_call

SpecOde == InitOde /\ [][NextOde]_vars

\* ------------------------------------------------------ calc_force_from_heat
\* sticks [T, L] of 1..NumSamples time samples and 1..NumLayers layers
InitHeat ==
    /\ InitNoCalls
    /\ calc = NoCalc
    /\ ode = NoOde
    /\ S = NoStructures
    /\ \E L \in 1..NumLayers, T \in 1..NumSamples, M \in 1..MaxOrder :
         \E sticks \in [1..T -> [1..L -> StickValues]],
            spring_consts \in SpringConsts(L, M) :
            force = [pc |-> "heat", sticks |-> sticks,
                     spring_consts |-> spring_consts, F |-> <<>>]

\* phononNum.py line 184: force_from_heat = calc_force_from_heat(...)
calc_force_from_heat_call ==
    /\ force.pc = "heat"
    /\ force' = [force EXCEPT
                   !.pc = "heated",
                   !.F = calc_force_from_heat(force.sticks, force.spring_consts)]
    /\ UNCHANGED <<orchVars, calc, ode, S>>

NextHeat == calc_force_from_heat_call

SpecHeat == InitHeat /\ [][NextHeat]_vars

\* ---------------------------------------------------------------- Structure
NoCall == [op |-> "none"]

\* structure.py line 54-59: the Structure objects after construction
InitStruct ==
    /\ InitNoCalls
    /\ calc = NoCalc
    /\ force = NoForce
    /\ ode = NoOde
    /\ S = [obj |-> [s \in StructIds |-> NewStructure], call |-> NoCall,
            calls |-> 0]

\* the objects a caller hands to add_sub_structure of s; structures are
\* nested without cycles: only sample takes stack
SubStructureArguments(s) ==
    Layers \cup {NotALayer}
        \cup (IF s = "sample" THEN {StructRef("stack")} ELSE {})

SubstrateArguments == {StructRef("wafer"), LayerA1}

\* structure.py line 116-154
add_sub_structure(s, o, N) ==
    /\ S.calls < MaxAdds
    /\ LET r == add_sub_structure_fields(S.obj[s], Deref(S.obj, o), N)
       IN  S' = [obj |-> [S.obj EXCEPT ![s] = r.self],
                 call |-> [op |-> "add_sub_structure", self |-> s,
                           cls |-> o.cls, raised |-> r.raised,
                           before |-> S.obj],
                 calls |-> S.calls + 1]
    /\ UNCHANGED <<orchVars, calc, force, ode>>

\* structure.py line 156-171
add_substrate(s, o) ==
    /\ S.calls < MaxAdds
    /\ LET r == add_substrate_fields(S.obj[s], Deref(S.obj, o))
       IN  S' = [obj |-> [S.obj EXCEPT ![s] = r.self],
                 call |-> [op |-> "add_substrate", self |-> s,
                           cls |-> o.cls, raised |-> r.raised,
                           before |-> S.obj],
                 calls |-> S.calls + 1]
    /\ UNCHANGED <<orchVars, calc, force, ode>>

NextStruct ==
    \/ \E s \in Targets : \E o \in SubStructureArguments(s), N \in Reps :
           add_sub_structure(s, o, N)
    \/ \E s \in Targets, o \in SubstrateArguments : add_substrate(s, o)

SpecStruct == InitStruct /\ [][NextStruct]_vars

\* ------------------------------------------------------- get_strain_map
Started(w) == pc[w] # "idle"

Valid(w) ==
    check_temp_maps(inp[w].temp_map, inp[w].delta_temp_map, inp[w].delays)

Computing(w) ==
    \/ pc[w] \in {"sticks", "solve", "solved", "save", "saving"}
    \/ did[w] \cap {"sticks", "solve_ivp", "ode_func", "save"} # {}

\* C1: when an artifact for the key exists and force_recalc is false, the
\* call only loads: it returns the artifact's array unchanged and runs neither
\* calc_strain_map nor the solver nor a save; in every other case it enters
\* calc_strain_map and never loads.
C1_CacheHitOrCompute ==
    \A w \in Workers :
        pc[w] \notin {"idle", "exists"} =>
            IF before[w].kind = "npy" /\ ~force_recalc[w]
            THEN /\ did[w] \subseteq {"load"}
                 /\ pc[w] \in {"load", "done"}
                 /\ File(Key(w)) = before[w]
                 /\ (pc[w] = "done" => strain_map[w] = before[w].data)
            ELSE /\ "load" \notin did[w]
                 /\ pc[w] # "load"
                 /\ (pc[w] = "calc" \/ "calc" \in did[w])

C1_Witness ==
    \E w \in Workers :
        /\ pc[w] = "done"
        /\ did[w] = {"load"}
        /\ before[w].kind = "npy"
        /\ strain_map[w] = before[w].data

C3_ValidatedBeforeCacheOrCompute ==
    \A w \in Workers :
        (pc[w] \in {"load", "done"} \/ Computing(w))
            => "check_temp_maps" \in did[w]

\* C3 amended: validation is the first step of the compute path and is not
\* run on a cache hit; no sticks, solver or save step runs before validation
\* has passed, and a call with invalid inputs never loads or returns a strain
\* map: it ends in the validation error.
C3_ValidatedBeforeCompute ==
    \A w \in Workers :
        Started(w) =>
            /\ Computing(w) => ("check_temp_maps" \in did[w] /\ Valid(w))
            /\ "load" \in did[w] => "check_temp_maps" \notin did[w]
            /\ ~Valid(w) => /\ pc[w] \notin {"load", "done"}
                            /\ "load" \notin did[w]
                            /\ (Ended(w) => err[w] = "input")

C3_Witness ==
    \E w \in Workers :
        /\ pc[w] = "error"
        /\ err[w] = "input"
        /\ IsNonDecreasing(inp[w].delays)
        /\ inp[w].temp_map.rows # Len(inp[w].delays)
        /\ did[w] = {"calc", "check_temp_maps"}

\* C4: a delay vector that is not monotonically non-decreasing is rejected
\* with an input error before the solver or ode_func is called, and no strain
\* map is returned or cached for it.
C4_NonMonotonicRejected ==
    \A w \in Workers :
        (Started(w) /\ ~IsNonDecreasing(inp[w].delays)) =>
            /\ did[w] \cap {"solve_ivp", "ode_func", "save"} = {}
            /\ pc[w] # "done"
            /\ strain_map[w] = NoArray
            /\ File(Key(w)) = NoFile
            /\ (Ended(w) => err[w] = "input")

C4_Witness ==
    \E w \in Workers :
        /\ pc[w] = "error"
        /\ err[w] = "input"
        /\ ~IsNonDecreasing(inp[w].delays)
        /\ ~only_heat[w]

\* C5: when the solver reports failure (status -1), calc_strain_map ends in
\* an error: no strain map is derived from the incomplete trajectory.
C5_SolverFailureIsFatal ==
    \A w \in Workers :
        sol[w].status = -1 =>
            /\ pc[w] \in {"solved", "error"}
            /\ strain_map[w] = NoArray

\* C6: when validation or the integration fails, the file under the cache
\* key is what it was before the call: nothing, complete or partial, has been
\* written.
C6_NoArtifactAfterFailure ==
    \A w \in Workers :
        (err[w] # "none" \/ sol[w].status = -1) => File(Key(w)) = before[w]

\* C7: an unreadable artifact is treated as a cache miss: the read error does
\* not end the call.
C7_UnreadableIsCacheMiss ==
    \A w \in Workers : ~(pc[w] = "error" /\ err[w] = "io")

\* C8: with two workers on the same key, no worker loads an artifact whose
\* write is incomplete, and when both have finished the store holds none.
C8_NoTornArtifact ==
    /\ \A w \in Workers :
           "load" \in did[w] => (pc[w] = "done" /\ strain_map[w] # NoArray)
    /\ (\A w \in Workers : Ended(w)) =>
           \A k \in Keys : File(k).kind # "partial"

\* ------------------------------------------------- calc_strain_map, numeric
\* C9: in heat-only mode calc_strain_map does not invoke the solver, the
\* strain map has shape [T, L] with strain[t, i] * thickness[i] = sticks[t, i]
\* for every sample t and layer i, and the velocity map is zero throughout.
C9_HeatOnlyStrain ==
    (calc.pc = "done" /\ calc.only_heat) =>
        LET T == Len(calc.sticks)
            L == Len(calc.thicknesses)
        IN  /\ calc.solve_ivp_calls = 0
            /\ DOMAIN calc.strain_map = 1..T
            /\ DOMAIN calc.velocities = 1..T
            /\ \A t \in 1..T :
                /\ DOMAIN calc.strain_map[t] = 1..L
                /\ DOMAIN calc.velocities[t] = 1..L
                /\ \A i \in 1..L :
                    /\ calc.strain_map[t][i].den > 0
                    /\ calc.strain_map[t][i].num * calc.thicknesses[i]
                         = calc.sticks[t][i] * calc.strain_map[t][i].den
                    /\ calc.velocities[t][i] = 0

C9_Witness ==
    /\ calc.pc = "done"
    /\ calc.only_heat
    /\ calc.thicknesses[1] # calc.thicknesses[NumLayers]
    /\ \E t \in 1..NumSamples :
        /\ calc.strain_map[t][1] # calc.strain_map[t][NumLayers]
        /\ calc.strain_map[t][NumLayers] = [num |-> -1, den |-> 2]

\* ------------------------------------------------------- ode_func, forces
\* sum over the orders j = 1..M of k[j] * d^j
PolyForce(k, d) == SumTo([j \in 1..Len(k) |-> k[j] * Pow(d, j)], Len(k))

OdeCalled == ode.pc # "off" /\ Len(ode.X_primes) >= 1

OdeV == SubSeq(ode.X, ode.L + 1, 2 * ode.L)

\* the acceleration entries of a derivative are the quotient of the total
\* force F by the masses
IsForceOverMass(X_prime, F) ==
    \A i \in 1..ode.L :
        /\ X_prime[ode.L + i].den > 0
        /\ X_prime[ode.L + i].num * ode.masses[i] = F[i] * X_prime[ode.L + i].den

\* C11: calc_force_from_damping returns F_i = mass_i * damping_i *
\* (v_i - v_{i-1}) with v_{-1} = 0 for every layer i, which is zero for a
\* layer i >= 1 that moves with the velocity of its neighbour i-1.
C11_DampingVelocityDifference ==
    OdeCalled =>
        /\ DOMAIN ode.F_damping = 1..ode.L
        /\ \A i \in 1..ode.L :
            ode.F_damping[i] =
                ode.masses[i] * ode.damping[i]
                * (OdeV[i] - (IF i > 1 THEN OdeV[i - 1] ELSE 0))

\* C12: on a single-layer stack the spring force and the damping force are
\* both zero, whatever the displacement and the velocity.
C12_SingleLayerZeroForce ==
    (OdeCalled /\ ode.L = 1) =>
        /\ ode.F_spring = <<0>>
        /\ ode.F_damping = <<0>>

\* C14: ode_func returns dX with dX[0:L] = X[L:2L] and dX[L:2L] = (spring
\* force + damping force + the heat force selected for t) / mass elementwise,
\* and a second call with the same (t, X) returns the same derivative.
C14_OdeFuncDerivative ==
    OdeCalled =>
        /\ \A c \in 1..Len(ode.X_primes) :
            /\ DOMAIN ode.X_primes[c] = 1..(2 * ode.L)
            /\ \A i \in 1..ode.L : ode.X_primes[c][i] = Quot(OdeV[i], 1)
            /\ IsForceOverMass(ode.X_primes[c],
                   [i \in 1..ode.L |->
                       ode.F_spring[i] + ode.F_damping[i]
                       + ode.force_from_heat[i][ode.idx + 1]])
        /\ Len(ode.X_primes) = 2 => ode.X_primes[2] = ode.X_primes[1]

C14_Witness ==
    /\ ode.pc = "done"
    /\ Len(ode.X_primes) = 2
    /\ ode.L = NumLayers
    /\ \A i \in 1..ode.L :
        /\ ode.F_damping[i] # 0
        /\ ode.masses[i] > 1 \/ i = 1
    /\ ode.F_spring[1] # 0
    /\ ode.X_primes[2][2 * ode.L].den > 1
    /\ ode.state # ode.state0

\* C15 as stated: the heat-force sample applied at time t is the one at the
\* index of the rightmost delay <= t; for every t <= delays[0] the index is 0
\* and for every t >= delays[-1] it is len(delays)-1.
C15_HeatSampleAsStated ==
    OdeCalled =>
        LET T == Len(ode.delays)
        IN  /\ ode.idx \in 0..(T - 1)
            /\ ode.t <= ode.delays[1] => ode.idx = 0
            /\ ode.t >= ode.delays[T] => ode.idx = T - 1
            /\ ode.t >= ode.delays[1] =>
                /\ ode.delays[ode.idx + 1] <= ode.t
                /\ \A j \in (ode.idx + 2)..T : ode.delays[j] > ode.t

\* C15 amended: the heat-force sample applied at time t is the one at the
\* index of the rightmost delay <= t, which for t = delays[0] is the last
\* index holding that value; for every t < delays[0] the index is 0, for every
\* t >= delays[-1] it is len(delays)-1, and an index is returned for every t.
C15_HeatSampleRightmost ==
    OdeCalled =>
        LET T == Len(ode.delays)
        IN  /\ ode.idx \in 0..(T - 1)
            /\ ode.t < ode.delays[1] => ode.idx = 0
            /\ ode.t >= ode.delays[T] => ode.idx = T - 1
            /\ ode.t >= ode.delays[1] =>
                /\ ode.delays[ode.idx + 1] <= ode.t
                /\ \A j \in (ode.idx + 2)..T : ode.delays[j] > ode.t
            /\ \A c \in 1..Len(ode.X_primes) :
                IsForceOverMass(ode.X_primes[c],
                    [i \in 1..ode.L |->
                        ode.F_spring[i] + ode.F_damping[i]
                        + ode.force_from_heat[i][ode.idx + 1]])

C15_Witness ==
    /\ ode.pc = "done"
    /\ ode.delays = [i \in 1..NumDelays |-> 2 * DelaysRamp[i]]
    /\ ode.t = ode.delays[2] + 1
    /\ ode.idx = 1
    /\ ode.X = [i \in 1..(2 * ode.L) |-> 0]
    /\ \A i \in 1..ode.L :
        ode.X_primes[1][ode.L + i]
            = Quot(ode.force_from_heat[i][2], ode.masses[i])

\* C18: with a progress bar ode_func returns the derivative it returns
\* without one, for every progress state; the progress branch changes only
\* the bar and state[0].
C18_ProgressObservational ==
    OdeCalled =>
        /\ \A c \in 1..Len(ode.X_primes) :
            ode.X_primes[c] =
                ode_func_X_prime(ode.t, ode.X, ode.delays, ode.force_from_heat,
                                 ode.damping, ode.spring_consts, ode.masses,
                                 ode.L)
        /\ ode.state0 = NoProgress => ode.state = NoProgress
        /\ ode.state0 # NoProgress =>
            /\ ode.state.pbar = ode.state0.pbar
            /\ ode.state.dt100 = ode.state0.dt100
            /\ ode.state.last_t \in {ode.state0.last_t, ode.t}

C18_Witness ==
    /\ ode.pc = "done"
    /\ ode.state0 # NoProgress
    /\ ode.state.updates = 1
    /\ ode.state.last_t = ode.t
    /\ ode.t # ode.state0.last_t
    /\ ode.idx # finderb(ode.state0.last_t, ode.delays)
    /\ ode.X_primes[1][2 * ode.L] # Quot(0, 1)

\* ------------------------------------------------------ calc_force_from_heat
\* the spring force of one row of sticks taken as displacement differences
SpringForceOfSticks(row, k) ==
    LET L == Len(row)
    IN  [i \in 1..L |->
            (IF i > 1 THEN -PolyForce(k[i - 1], row[i - 1]) ELSE 0)
            + (IF i < L THEN PolyForce(k[i], row[i]) ELSE 0)]

\* C13 as stated: the heat force is a matrix of shape [T, L] whose row t is
\* the negated spring force of row t of the sticks.
C13_HeatForceAsStated ==
    force.pc = "heated" =>
        LET T == Len(force.sticks)
            L == Len(force.sticks[1])
        IN  /\ DOMAIN force.F = 1..T
            /\ \A t \in 1..T :
                /\ DOMAIN force.F[t] = 1..L
                /\ \A i \in 1..L :
                    force.F[t][i] =
                        -SpringForceOfSticks(force.sticks[t],
                                             force.spring_consts)[i]

\* C13 amended: the heat force is a matrix of shape [L, T] whose column t is
\* the negated spring force of row t of the sticks (and of no other row), with
\* the same spring constants for every time sample.
C13_HeatForce ==
    force.pc = "heated" =>
        LET T == Len(force.sticks)
            L == Len(force.sticks[1])
        IN  /\ DOMAIN force.F = 1..L
            /\ \A i \in 1..L :
                /\ DOMAIN force.F[i] = 1..T
                /\ \A t \in 1..T :
                    force.F[i][t] =
                        -SpringForceOfSticks(force.sticks[t],
                                             force.spring_consts)[i]

C13_Witness ==
    /\ force.pc = "heated"
    /\ Len(force.sticks) = NumSamples
    /\ Len(force.F) = NumLayers
    /\ Len(force.spring_consts[1]) = MaxOrder
    /\ force.sticks[1] # force.sticks[NumSamples]
    /\ force.F[1][1] # force.F[1][NumSamples]
    /\ force.F[1][1] # 0

\* ------------------------------------------------- calc_strain_map, dynamic
\* C16: in dynamic mode, with a trajectory of one state per delay, the strain
\* map has shape [T, L-1] with strain[t, i] * thickness_i = x_{i+1}(t) - x_i(t)
\* and the velocity map has shape [T, L] and holds the trailing L components
\* of the trajectory at each delay.
C16_DynamicStrain ==
    (calc.pc = "done" /\ ~calc.only_heat
        /\ Len(calc.y[1]) = Len(calc.sticks)) =>
        LET T == Len(calc.sticks)
            L == Len(calc.thicknesses)
        IN  /\ calc.solve_ivp_calls = 1
            /\ DOMAIN calc.strain_map = 1..T
            /\ DOMAIN calc.velocities = 1..T
            /\ \A t \in 1..T :
                /\ DOMAIN calc.strain_map[t] = 1..(L - 1)
                /\ DOMAIN calc.velocities[t] = 1..L
                /\ \A i \in 1..(L - 1) :
                    /\ calc.strain_map[t][i].den > 0
                    /\ calc.strain_map[t][i].num * calc.thicknesses[i]
                         = (calc.y[i + 1][t] - calc.y[i][t])
                           * calc.strain_map[t][i].den
                /\ \A i \in 1..L : calc.velocities[t][i] = calc.y[L + i][t]

C16_Witness ==
    /\ calc.pc = "done"
    /\ ~calc.only_heat
    /\ Len(calc.y[1]) = NumSamples
    /\ calc.thicknesses[1] # calc.thicknesses[2]
    /\ calc.strain_map[1][1] = [num |-> 3, den |-> 2]
    /\ calc.strain_map[NumSamples][1] # calc.strain_map[1][1]
    /\ calc.velocities[1][1] # calc.velocities[NumSamples][NumLayers]

\* ---------------------------------------------------------------- Structure
\* the stack of a structure: its layers in order, repetitions and nested
\* structures expanded
RECURSIVE Expand(_, _)
RECURSIVE ExpandFrom(_, _, _)
ExpandFrom(obj, s, i) ==
    LET subs == obj[s].sub_structures
    IN  IF i > Len(subs) THEN <<>>
        ELSE repeat(IF isinstance(subs[i][1], LayerClasses)
                    THEN <<subs[i][1]>>
                    ELSE Expand(obj, subs[i][1].ref), subs[i][2])
             \o ExpandFrom(obj, s, i + 1)

Expand(obj, s) == ExpandFrom(obj, s, 1)

\* the objects with entry e of structure s replaced by another layer object
\* of the same id that is thicker
Thicker(obj, s, e) ==
    [obj EXCEPT ![s].sub_structures[e][1].thickness = @ + 1]

\* C17: changing a physical parameter of a layer that occupies a position of
\* the stack changes what Structure.get_hash hashes, also when the stack
\* holds different layer objects of the same id.
C17_HashSeesEveryLayerParameter ==
    \A s \in Targets :
        \A e \in 1..Len(S.obj[s].sub_structures) :
            LET entry == S.obj[s].sub_structures[e]
            IN  (isinstance(entry[1], LayerClasses) /\ entry[2] >= 1) =>
                    Structure_get_hash(Thicker(S.obj, s, e), s)
                        # Structure_get_hash(S.obj, s)

\* C19: add_sub_structure raises for an argument that is no AmorphousLayer,
\* UnitCell or Structure, add_substrate raises for an argument that is no
\* Structure, and after a call that raised every structure has the
\* sub_structures, substrate and num_sub_systems it had before the call.
C19_RejectedCallsChangeNothing ==
    S.call.op # "none" =>
        /\ (S.call.op = "add_sub_structure"
              /\ S.call.cls \notin {"AmorphousLayer", "UnitCell", "Structure"})
            => S.call.raised = "ValueError"
        /\ (S.call.op = "add_substrate" /\ S.call.cls # "Structure")
            => S.call.raised = "ValueError"
        /\ S.call.raised = "ValueError" =>
            \A s \in StructIds :
                /\ S.obj[s].sub_structures = S.call.before[s].sub_structures
                /\ S.obj[s].substrate = S.call.before[s].substrate
                /\ S.obj[s].num_sub_systems = S.call.before[s].num_sub_systems

\* a rejection for the number of sub-systems, of a structure that holds layers
C19_Witness ==
    /\ S.call.op = "add_sub_structure"
    /\ S.call.raised = "ValueError"
    /\ S.call.cls \in LayerClasses
    /\ S.obj[S.call.self].num_sub_systems = 2
    /\ Len(S.obj[S.call.self].sub_structures) = 2

\* C20: for a structure that holds at least one layer, the three lists of
\* get_layer_vectors and every property vector have get_number_of_layers()
\* entries, and entry i of a property vector is the property of the i-th layer
\* of the stack.
C20_PropertyVectorLength ==
    \A s \in Targets :
        LET stack == Expand(S.obj, s)
            L == Structure_get_number_of_layers(S.obj, s)
            vectors == Structure_get_layer_vectors(
                           S.obj, s, Structure_get_unique_layers(S.obj, s))
        IN  Len(stack) >= 1 =>
                /\ L = Len(stack)
                /\ Len(vectors.indices) = L
                /\ Len(vectors.layer_ids) = L
                /\ Len(vectors.layer_handles) = L
                /\ \A name \in PropertyNames :
                    LET prop == Structure_get_layer_property_vector(
                                    S.obj, s, name)
                    IN  /\ prop.raised = "no"
                        /\ DOMAIN prop.prop = 1..L
                        /\ \A i \in 1..L : prop.prop[i] = stack[i][name]

C20_Witness ==
    /\ Structure_get_number_of_layers(S.obj, "sample") = 6
    /\ Len(S.obj["sample"].sub_structures) = 2
    /\ Structure_get_layer_property_vector(S.obj, "sample", "thickness").prop
         = <<2, 2, 2, 2, 1, 1>>
    /\ Structure_get_layer_property_vector(S.obj, "sample",
                                           "spring_const").prop
         = <<<<1>>, <<1>>, <<1>>, <<1>>, <<2>>, <<2>>>>

\* C21: all sub-structures a structure holds have the same num_sub_systems,
\* which is the structure's own, in whatever order they were added.
C21_SameNumSubSystems ==
    \A s \in Targets :
        \A e \in 1..Len(S.obj[s].sub_structures) :
            Deref(S.obj, S.obj[s].sub_structures[e][1]).num_sub_systems
                = S.obj[s].num_sub_systems

\* C22: no structure held in the sub_structures of another structure has a
\* substrate, whatever the order of the add_sub_structure and add_substrate
\* calls.
C22_NoSubstrateInSubStructure ==
    \A s \in Targets :
        \A e \in 1..Len(S.obj[s].sub_structures) :
            isinstance(S.obj[s].sub_structures[e][1], {"Structure"}) =>
                Deref(S.obj, S.obj[s].sub_structures[e][1]).substrate = <<>>

====
